---- MODULE Spec2Model ----
(***************************************************************************)
(* Model of src/app.py: the Urdu -> English voice translation script.      *)
(*                                                                         *)
(* The script loads a bundle of models at import time (load_models), then  *)
(* main() runs one record -> transcribe -> translate -> speak cycle.       *)
(* Every call into a third-party library (sounddevice, scipy, pydub,       *)
(* whisper, transformers, pyttsx3, os.remove) is one step whose outcome is *)
(* chosen nondeterministically: it returns, or it raises an Exception.     *)
(* Strings are sequences of characters; the string operations of the code  *)
(* (strip, replace, len, truthiness) are operators computed as Python      *)
(* computes them.                                                          *)
(***************************************************************************)
EXTENDS Naturals, Sequences, FiniteSets

VARIABLES
    pc,            \* position of the single thread of control
    bundle,        \* load_models' local dict `models` (line 46)
    models,        \* the module-level `models` (line 70); empty while unbound
    wav0,          \* urdu_audio.wav on disk before the process started
    wav,           \* urdu_audio.wav on disk now
    audio,         \* record_urdu_audio's local `audio`; locals are unset
                   \* again once their function has returned
    console,       \* what print() has written, oldest first
    calls,         \* call counts of the instrumented external calls
    stages,        \* orchestrator states entered so far, in order
    rec_ret,       \* value returned by record_urdu_audio()
    result,        \* transcribe_urdu's result["text"]
    text,          \* the local `text` of transcribe_urdu / translate_urdu
    arg,           \* the argument translate_urdu was last called with
    english,       \* translate_urdu's local `english`
    urdu_text,     \* main's local urdu_text (line 140)
    english_text,  \* value returned by translate_urdu (main's local, line 147)
    exc,           \* the call whose exception is leaving the script, or "none"
    caller,        \* who called translate_urdu: "main" or "direct"
    raised         \* stages inside whose try block an exception was raised

vars == <<pc, bundle, models, wav0, wav, audio, console, calls, stages, rec_ret,
          result, text, arg, english, urdu_text, english_text, exc, caller,
          raised>>

----------------------------------------------------------------------------
(* Bounds *)

\* longest text the recognition model returns in the model
MaxLen == 4

----------------------------------------------------------------------------
(* Characters and Python values *)

SP == " "
HEH == "HEH_GOAL"          \* U+06C1
YEHB == "YEH_BARREE"       \* U+06D2
FYEH == "FARSI_YEH"        \* U+06CC
NOONG == "NOON_GHUNNA"     \* U+06BA
MEEM == "MEEM"             \* U+0645
USTOP == "ARABIC_FULL_STOP" \* U+06D4
DOT == "."
NBSP == "U+00A0"           \* no-break space

\* characters the modelled recognition model can emit
UrduAlphabet == {SP, NBSP, HEH, YEHB, USTOP}

\* Python's None, True and False, and a local that has not been assigned yet
None == <<"<None>">>
True == <<"<True>">>
False == <<"<False>">>
Unset == <<"<unset>">>

\* all strings over alphabet A of length at most n
StringsUpTo(A, n) == UNION {[1..k -> A] : k \in 0..n}

\* the texts whisper can return as result["text"]
RawTexts == StringsUpTo(UrduAlphabet, MaxLen)

\* what a caller can pass to translate_urdu: None or any string
TranslateInputs == {None} \cup RawTexts

\* Python truthiness of a stage result: `not v`
Falsy(v) == v = None \/ v = False \/ v = <<>>

\* s.replace(old, new) for a non-empty `old`: left to right, non-overlapping
RECURSIVE Replace(_, _, _)
Replace(s, old, new) ==
    IF Len(s) < Len(old) THEN s
    ELSE IF SubSeq(s, 1, Len(old)) = old
         THEN new \o Replace(SubSeq(s, Len(old) + 1, Len(s)), old, new)
         ELSE <<Head(s)>> \o Replace(Tail(s), old, new)

\* the characters str.strip() removes: every code point for which
\* str.isspace() is true. The ASCII ones are written as themselves, each is
\* also named by its code point.
Whitespace ==
    {SP, "\t", "\n", "\r", "\f"} \cup
    {"U+0009", "U+000A", "U+000B", "U+000C", "U+000D",
     "U+001C", "U+001D", "U+001E", "U+001F", "U+0020", "U+0085", "U+00A0",
     "U+1680", "U+2000", "U+2001", "U+2002", "U+2003", "U+2004", "U+2005",
     "U+2006", "U+2007", "U+2008", "U+2009", "U+200A", "U+2028", "U+2029",
     "U+202F", "U+205F", "U+3000"}

RECURSIVE LStrip(_)
LStrip(s) == IF s # <<>> /\ Head(s) \in Whitespace THEN LStrip(Tail(s)) ELSE s

RECURSIVE RStrip(_)
RStrip(s) ==
    IF s # <<>> /\ s[Len(s)] \in Whitespace
    THEN RStrip(SubSeq(s, 1, Len(s) - 1))
    ELSE s

\* s.strip()
Strip(s) == RStrip(LStrip(s))

\* the `corrections` dict of transcribe_urdu, in insertion order
corrections ==
    << <<(<<HEH, YEHB>>), (<<HEH, YEHB>>)>>,
       <<(<<HEH, FYEH, NOONG>>), (<<HEH, FYEH, NOONG>>)>>,
       <<(<<MEEM, FYEH, NOONG>>), (<<MEEM, FYEH, NOONG>>)>> >>

\* the `fixes` dict of translate_urdu, in insertion order
fixes ==
    << <<(<<"I", " ", "a", "m">>), (<<"I">>)>>,
       <<(<<"y", "o", "u", " ", "a", "r", "e">>), (<<"y", "o", "u">>)>>,
       <<(<<"h", "e", " ", "i", "s">>), (<<"h", "e">>)>> >>

\* for wrong, correct in table.items(): s = s.replace(wrong, correct)
RECURSIVE ApplyAll(_, _)
ApplyAll(s, table) ==
    IF table = <<>> THEN s
    ELSE ApplyAll(Replace(s, Head(table)[1], Head(table)[2]), Tail(table))

\* transcribe_urdu's post-processing of result["text"]
PostProcess(raw) == ApplyAll(Strip(raw), corrections)

\* the guard with the length bound off by one: len(urdu_text) < 2
Rejects_OffByOne(t) == Falsy(t) \/ Len(t) < 2

\* translate_urdu's guard: `not urdu_text or len(urdu_text) < 3`
Rejects(t) == Falsy(t) \/ Len(t) < 3

\* translate_urdu's pre-processing
PreProcess(t) ==
    Replace(Replace(t, <<USTOP>>, <<DOT>>), <<HEH, YEHB>>, <<SP, HEH, YEHB, SP>>)

\* translate_urdu's post-translation fixes
PostFixes(e) == ApplyAll(e, fixes)

\* what tokenizer.decode can return in the model
DecodedTexts ==
    { <<>>,
      <<"h", "i">>,
      <<"I", " ", "a", "m">>,
      <<"I", " ", "a", "m", " ", "h", "e">>,
      <<"h", "e", " ", "i", "s">>,
      <<"y", "o", "u", " ", "a", "r", "e">> }

----------------------------------------------------------------------------
(* The model bundle *)

Handles == {"whisper", "tokenizer", "translator", "tts"}

EmptyDict == [k \in {} |-> ""]

\* d[k] = v
Put(d, k, v) == [x \in DOMAIN d \cup {k} |-> IF x = k THEN v ELSE d[x]]

CallNames == {"load_medium", "load_small", "write", "whisper", "tokenizer",
              "generate", "say", "runAndWait", "remove"}

Called(c) == [calls EXCEPT ![c] = @ + 1]

Log(msg) == Append(console, msg)

\* the error messages of the except handlers
FailureMsg == [load |-> "Model loading failed",
               record |-> "Recording failed",
               transcribe |-> "Transcription failed",
               translate |-> "Translation failed"]

----------------------------------------------------------------------------
(* Initial state: the interpreter is about to run line 70 *)

Init ==
    /\ pc = "load_medium"
    /\ bundle = EmptyDict
    /\ models = EmptyDict
    /\ wav0 \in {"absent", "stale"}
    /\ wav = wav0
    /\ audio = "unset"
    /\ console = <<>>
    /\ calls = [c \in CallNames |-> 0]
    /\ stages = <<>>
    /\ rec_ret = Unset
    /\ result = Unset
    /\ text = Unset
    /\ arg = Unset
    /\ english = Unset
    /\ urdu_text = Unset
    /\ english_text = Unset
    /\ exc = "none"
    /\ caller = "main"
    /\ raised = {}

----------------------------------------------------------------------------
(* load_models, lines 45-67, and the module-level call, line 70 *)

loadVars == <<wav0, wav, audio, stages, rec_ret, result, text, arg, english,
              urdu_text, english_text, caller, raised>>

\* line 50 returns
LoadMediumOk ==
    /\ pc = "load_medium"
    /\ calls' = Called("load_medium")
    /\ bundle' = Put(bundle, "whisper", "medium")
    /\ pc' = "load_tokenizer"
    /\ UNCHANGED <<models, console, exc, loadVars>>

\* line 50 raises and the handler falls back without printing
LoadMediumFail_Silent ==
    /\ pc = "load_medium"
    /\ calls' = Called("load_medium")
    /\ pc' = "load_small"
    /\ UNCHANGED <<bundle, models, console, exc, loadVars>>

\* line 50 raises: the bare except of line 51 prints the fallback (line 52)
LoadMediumFail ==
    /\ pc = "load_medium"
    /\ calls' = Called("load_medium")
    /\ console' = Log("Falling back to whisper-small")
    /\ pc' = "load_small"
    /\ UNCHANGED <<bundle, models, exc, loadVars>>

\* line 53: the fallback load, inside the inner handler
LoadSmall ==
    /\ pc = "load_small"
    /\ calls' = Called("load_small")
    /\ \/ /\ bundle' = Put(bundle, "whisper", "small")
          /\ pc' = "load_tokenizer"
          /\ exc' = exc
       \/ /\ bundle' = bundle
          /\ pc' = "load_except"
          /\ exc' = "load_small"
    /\ UNCHANGED <<models, console, loadVars>>

\* one of lines 57, 58, 61, 62: store the handle, or raise into line 65
LoadStep(at, key, val, next) ==
    /\ pc = at
    /\ \/ /\ bundle' = Put(bundle, key, val)
          /\ pc' = next
          /\ exc' = exc
       \/ /\ bundle' = bundle
          /\ pc' = "load_except"
          /\ exc' = at
    /\ UNCHANGED <<models, console, calls, loadVars>>

LoadTokenizer == LoadStep("load_tokenizer", "tokenizer", "opus-mt-ur-en", "load_translator")

LoadTranslator == LoadStep("load_translator", "translator", "opus-mt-ur-en", "tts_init")

TtsInit == LoadStep("tts_init", "tts", "engine", "tts_rate")

TtsSetProperty == LoadStep("tts_rate", "tts", "engine rate 150", "load_return")

\* line 64 and line 70: return models; models = load_models()
LoadReturn ==
    /\ pc = "load_return"
    /\ models' = bundle
    /\ pc' = "entry"
    /\ UNCHANGED <<bundle, console, calls, exc, loadVars>>

\* the handler prints and returns the dict as far as it was filled
LoadExcept_Swallow ==
    /\ pc = "load_except"
    /\ console' = Log(FailureMsg.load)
    /\ models' = bundle
    /\ pc' = "entry"
    /\ UNCHANGED <<bundle, calls, exc, loadVars>>

\* lines 65-67: print and re-raise; line 70 never assigns, the script ends
LoadExcept ==
    /\ pc = "load_except"
    /\ console' = Log(FailureMsg.load)
    /\ pc' = "Raised"
    /\ UNCHANGED <<bundle, models, calls, exc, loadVars>>

----------------------------------------------------------------------------
(* record_urdu_audio, lines 16-41 *)

recVars == <<bundle, models, wav0, result, text, arg, english, urdu_text,
             english_text, exc, caller>>

\* line 162 calls main(); line 135 calls record_urdu_audio(); line 19 prints
RecordCall ==
    /\ pc = "entry"
    /\ stages' = Append(stages, "Recording")
    /\ console' = Log("Speak Urdu clearly")
    /\ pc' = "rec_rec"
    /\ UNCHANGED <<wav, audio, calls, rec_ret, raised, recVars>>

\* lines 22-25: sd.rec starts the capture, or raises
SdRec ==
    /\ pc = "rec_rec"
    /\ \/ /\ audio' = "recording"
          /\ pc' = "rec_wait"
          /\ raised' = raised
       \/ /\ audio' = audio
          /\ pc' = "rec_except"
          /\ raised' = raised \cup {"record"}
    /\ UNCHANGED <<wav, console, calls, stages, rec_ret, recVars>>

\* line 26: sd.wait blocks until the buffer is full; the buffer holds a
\* signal or silence (peak 0)
SdWait ==
    /\ pc = "rec_wait"
    /\ \/ /\ audio' \in {"signal", "silent"}
          /\ pc' = "rec_norm"
          /\ raised' = raised
       \/ /\ audio' = audio
          /\ pc' = "rec_except"
          /\ raised' = raised \cup {"record"}
    /\ UNCHANGED <<wav, console, calls, stages, rec_ret, recVars>>

\* line 29: audio / np.max(np.abs(audio)); a silent buffer divides by zero,
\* which numpy answers with NaN samples and a warning, not an exception
Normalize ==
    /\ pc = "rec_norm"
    /\ audio' = IF audio = "silent" THEN "nan" ELSE "normalized"
    /\ pc' = "rec_write"
    /\ UNCHANGED <<wav, console, calls, stages, rec_ret, raised, recVars>>

\* line 30: scipy's write creates the file and fills it; a failure leaves
\* the disk as it was (open failed) or a truncated file (a write failed)
WavWrite ==
    /\ pc = "rec_write"
    /\ calls' = Called("write")
    /\ \/ /\ wav' = "raw"
          /\ pc' = "rec_from_wav"
          /\ raised' = raised
       \/ /\ wav' \in {wav, "partial"}
          /\ pc' = "rec_except"
          /\ raised' = raised \cup {"record"}
    /\ UNCHANGED <<audio, console, stages, rec_ret, recVars>>

\* lines 33 and 34: a pydub call that touches no file: returns or raises
PydubStep(at, next) ==
    /\ pc = at
    /\ \/ /\ pc' = next
          /\ raised' = raised
       \/ /\ pc' = "rec_except"
          /\ raised' = raised \cup {"record"}
    /\ UNCHANGED <<wav, audio, console, calls, stages, rec_ret, recVars>>

FromWav == PydubStep("rec_from_wav", "rec_seg_norm")

SegNormalize == PydubStep("rec_seg_norm", "rec_export")

\* line 35: export rewrites the file in place
Export ==
    /\ pc = "rec_export"
    /\ \/ /\ wav' = "exported"
          /\ pc' = "rec_saved"
          /\ raised' = raised
       \/ /\ wav' \in {wav, "partial"}
          /\ pc' = "rec_except"
          /\ raised' = raised \cup {"record"}
    /\ UNCHANGED <<audio, console, calls, stages, rec_ret, recVars>>

\* lines 37-38: print and return True; the local `audio` ends with the call
RecordReturn ==
    /\ pc = "rec_saved"
    /\ console' = Log("Saved")
    /\ rec_ret' = True
    /\ audio' = "unset"
    /\ pc' = "main_rec_check"
    /\ UNCHANGED <<wav, calls, stages, raised, recVars>>

\* the handler prints and re-raises instead of returning False
RecordExcept_Reraise ==
    /\ pc = "rec_except"
    /\ console' = Log(FailureMsg.record)
    /\ exc' = "record"
    /\ pc' = "Raised"
    /\ UNCHANGED <<bundle, models, wav0, wav, audio, calls, stages, rec_ret,
                   result, text, arg, english, urdu_text, english_text, caller,
                   raised>>

\* lines 39-41: print and return False; the local `audio` ends with the call
RecordExcept ==
    /\ pc = "rec_except"
    /\ console' = Log(FailureMsg.record)
    /\ rec_ret' = False
    /\ audio' = "unset"
    /\ pc' = "main_rec_check"
    /\ UNCHANGED <<wav, calls, stages, raised, recVars>>

----------------------------------------------------------------------------
(* transcribe_urdu, lines 74-100 *)

trVars == <<bundle, models, wav0, wav, audio, stages, rec_ret, arg, english,
            english_text, exc, caller>>

\* lines 77-83: the recognition model reads the file and returns a text, or
\* raises (always, when the handle or the file is missing)
WhisperTranscribe ==
    /\ pc = "tr_whisper"
    /\ calls' = Called("whisper")
    /\ \/ /\ "whisper" \in DOMAIN models
          /\ wav # "absent"
          /\ result' \in RawTexts
          /\ pc' = "tr_post"
          /\ raised' = raised
       \/ /\ result' = result
          /\ pc' = "tr_except"
          /\ raised' = raised \cup {"transcribe"}
    /\ UNCHANGED <<console, urdu_text, text, trVars>>

\* lines 86-95: text = result["text"].strip(), then the corrections
TranscribePost ==
    /\ pc = "tr_post"
    /\ text' = PostProcess(result)
    /\ pc' = "tr_return"
    /\ UNCHANGED <<console, calls, result, urdu_text, raised, trVars>>

\* line 97 and line 140: return text; urdu_text = transcribe_urdu(...)
TranscribeReturn ==
    /\ pc = "tr_return"
    /\ urdu_text' = text
    /\ result' = Unset
    /\ text' = Unset
    /\ pc' = "main_tr_check"
    /\ UNCHANGED <<console, calls, raised, trVars>>

\* the handler returns None without printing
TranscribeExcept_Silent ==
    /\ pc = "tr_except"
    /\ urdu_text' = None
    /\ result' = Unset
    /\ text' = Unset
    /\ pc' = "main_tr_check"
    /\ UNCHANGED <<console, calls, raised, trVars>>

\* lines 98-100: print and return None
TranscribeExcept ==
    /\ pc = "tr_except"
    /\ console' = Log(FailureMsg.transcribe)
    /\ urdu_text' = None
    /\ result' = Unset
    /\ text' = Unset
    /\ pc' = "main_tr_check"
    /\ UNCHANGED <<calls, raised, trVars>>

----------------------------------------------------------------------------
(* translate_urdu, lines 104-129 *)

tlVars == <<bundle, models, wav0, wav, audio, stages, rec_ret, result, arg,
            urdu_text, exc, caller>>

\* where translate_urdu returns to
ReturnPc == IF caller = "main" THEN "main_tl_check" ELSE "returned"

\* lines 106-110: reject a falsy or too short input, else pre-process it
TranslateCheck ==
    /\ pc = "tl_check"
    /\ IF Rejects(arg)
       THEN /\ english_text' = None
            /\ pc' = ReturnPc
            /\ text' = Unset
       ELSE /\ text' = PreProcess(arg)
            /\ pc' = "tl_tokenize"
            /\ english_text' = english_text
    /\ UNCHANGED <<console, calls, english, raised, tlVars>>

\* line 113: the tokenizer encodes `text`
Tokenize ==
    /\ pc = "tl_tokenize"
    /\ calls' = Called("tokenizer")
    /\ \/ /\ "tokenizer" \in DOMAIN models
          /\ pc' = "tl_generate"
          /\ raised' = raised
       \/ /\ pc' = "tl_except"
          /\ raised' = raised \cup {"translate"}
    /\ UNCHANGED <<console, text, english, english_text, tlVars>>

\* line 114: the translation model generates
Generate ==
    /\ pc = "tl_generate"
    /\ calls' = Called("generate")
    /\ \/ /\ "translator" \in DOMAIN models
          /\ pc' = "tl_decode"
          /\ raised' = raised
       \/ /\ pc' = "tl_except"
          /\ raised' = raised \cup {"translate"}
    /\ UNCHANGED <<console, text, english, english_text, tlVars>>

\* line 115: the tokenizer decodes the output to an English string
Decode ==
    /\ pc = "tl_decode"
    /\ \/ /\ "tokenizer" \in DOMAIN models
          /\ english' \in DecodedTexts
          /\ pc' = "tl_post"
          /\ raised' = raised
       \/ /\ english' = english
          /\ pc' = "tl_except"
          /\ raised' = raised \cup {"translate"}
    /\ UNCHANGED <<console, calls, text, english_text, tlVars>>

\* lines 118-124: the fixes rebind `english`
TranslateFix ==
    /\ pc = "tl_post"
    /\ english' = PostFixes(english)
    /\ pc' = "tl_return"
    /\ UNCHANGED <<console, calls, text, english_text, raised, tlVars>>

\* line 126 and line 147: return english; english_text = translate_urdu(...)
TranslateReturn ==
    /\ pc = "tl_return"
    /\ english_text' = english
    /\ text' = Unset
    /\ english' = Unset
    /\ pc' = ReturnPc
    /\ UNCHANGED <<console, calls, raised, tlVars>>

\* lines 127-129: print and return None
TranslateExcept ==
    /\ pc = "tl_except"
    /\ console' = Log(FailureMsg.translate)
    /\ english_text' = None
    /\ text' = Unset
    /\ english' = Unset
    /\ pc' = ReturnPc
    /\ UNCHANGED <<calls, raised, tlVars>>

----------------------------------------------------------------------------
(* main, lines 133-158 *)

mainVars == <<bundle, models, wav0, audio, rec_ret, result, text, english,
              urdu_text, english_text, caller, raised>>

\* a `return` of lines 136, 142, 149
Abort ==
    /\ pc' = "Aborted"
    /\ stages' = Append(stages, "Aborted")
    /\ UNCHANGED <<console, arg>>

\* main calls transcribe_urdu whatever record_urdu_audio returned
MainCheckRecord_Ignore ==
    /\ pc = "main_rec_check"
    /\ console' = Log("Transcribing...")
    /\ stages' = Append(stages, "Transcribing")
    /\ pc' = "tr_whisper"
    /\ UNCHANGED <<wav, calls, arg, exc, mainVars>>

\* lines 135-140: if not record_urdu_audio(): return; else call transcribe_urdu
MainCheckRecord ==
    /\ pc = "main_rec_check"
    /\ IF Falsy(rec_ret)
       THEN Abort
       ELSE /\ console' = Log("Transcribing...")
            /\ stages' = Append(stages, "Transcribing")
            /\ pc' = "tr_whisper"
            /\ arg' = arg
    /\ UNCHANGED <<wav, calls, exc, mainVars>>

\* main tests `urdu_text is None` instead of `not urdu_text`
MainCheckTranscribe_IsNone ==
    /\ pc = "main_tr_check"
    /\ IF urdu_text = None
       THEN Abort
       ELSE /\ console' = console \o <<"Urdu:", "Translating...">>
            /\ stages' = Append(stages, "Translating")
            /\ arg' = urdu_text
            /\ pc' = "tl_check"
    /\ UNCHANGED <<wav, calls, exc, mainVars>>

\* lines 141-147: if not urdu_text: return; else call translate_urdu
MainCheckTranscribe ==
    /\ pc = "main_tr_check"
    /\ IF Falsy(urdu_text)
       THEN Abort
       ELSE /\ console' = console \o <<"Urdu:", "Translating...">>
            /\ stages' = Append(stages, "Translating")
            /\ arg' = urdu_text
            /\ pc' = "tl_check"
    /\ UNCHANGED <<wav, calls, exc, mainVars>>

\* main goes from a successful translation straight to the cleanup
MainCheckTranslate_SkipSpeak ==
    /\ pc = "main_tl_check"
    /\ IF Falsy(english_text)
       THEN Abort
       ELSE /\ console' = console \o <<"English:", "Speaking...">>
            /\ stages' = Append(stages, "Speaking")
            /\ pc' = "remove"
            /\ arg' = arg
    /\ UNCHANGED <<wav, calls, exc, mainVars>>

\* lines 148-153: if not english_text: return; else go on to speak
MainCheckTranslate ==
    /\ pc = "main_tl_check"
    /\ IF Falsy(english_text)
       THEN Abort
       ELSE /\ console' = console \o <<"English:", "Speaking...">>
            /\ stages' = Append(stages, "Speaking")
            /\ pc' = "say"
            /\ arg' = arg
    /\ UNCHANGED <<wav, calls, exc, mainVars>>

\* the speech calls wrapped in try/finally: the exception still leaves main,
\* but the file is removed on the way out
TtsStep_Cleanup(at, next) ==
    /\ pc = at
    /\ calls' = Called(at)
    /\ \/ /\ "tts" \in DOMAIN models
          /\ pc' = next
          /\ exc' = exc
          /\ wav' = wav
       \/ /\ pc' = "Raised"
          /\ exc' = at
          /\ wav' = "absent"
    /\ UNCHANGED <<console, stages, arg, mainVars>>

\* lines 154 and 155: a call on models['tts'] outside any try: it returns,
\* or its exception leaves main
TtsStep(at, next) ==
    /\ pc = at
    /\ calls' = Called(at)
    /\ \/ /\ "tts" \in DOMAIN models
          /\ pc' = next
          /\ exc' = exc
       \/ /\ pc' = "Raised"
          /\ exc' = at
    /\ UNCHANGED <<wav, console, stages, arg, mainVars>>

Say == TtsStep("say", "runAndWait")

RunAndWait == TtsStep("runAndWait", "remove")

\* the cleanup returns without deleting the file
Remove_KeepsFile ==
    /\ pc = "remove"
    /\ calls' = Called("remove")
    /\ pc' = "Done"
    /\ stages' = Append(stages, "Done")
    /\ UNCHANGED <<wav, exc, console, arg, mainVars>>

\* line 158: os.remove deletes the file and main returns, or raises
Remove ==
    /\ pc = "remove"
    /\ calls' = Called("remove")
    /\ \/ /\ wav # "absent"
          /\ wav' = "absent"
          /\ pc' = "Done"
          /\ stages' = Append(stages, "Done")
          /\ exc' = exc
       \/ /\ pc' = "Raised"
          /\ exc' = "remove"
          /\ UNCHANGED <<wav, stages>>
    /\ UNCHANGED <<console, arg, mainVars>>

----------------------------------------------------------------------------
(* The script: load the models, then one run of main *)

Next ==
    \/ LoadMediumOk
    \/ LoadMediumFail
    \/ LoadSmall
    \/ LoadTokenizer
    \/ LoadTranslator
    \/ TtsInit
    \/ TtsSetProperty
    \/ LoadReturn
    \/ LoadExcept
    \/ RecordCall
    \/ SdRec
    \/ SdWait
    \/ Normalize
    \/ WavWrite
    \/ FromWav
    \/ SegNormalize
    \/ Export
    \/ RecordReturn
    \/ RecordExcept
    \/ MainCheckRecord
    \/ WhisperTranscribe
    \/ TranscribePost
    \/ TranscribeReturn
    \/ TranscribeExcept
    \/ MainCheckTranscribe
    \/ TranslateCheck
    \/ Tokenize
    \/ Generate
    \/ Decode
    \/ TranslateFix
    \/ TranslateReturn
    \/ TranslateExcept
    \/ MainCheckTranslate
    \/ Say
    \/ RunAndWait
    \/ Remove

Spec == Init /\ [][Next]_vars

\* the run is sequential and every call returns or raises, so some step is
\* always taken until the script ends
FairSpec == Spec /\ WF_vars(Next)

----------------------------------------------------------------------------
(* translate_urdu called on its own, on any input, with the models loaded *)

FullBundle(w) == [h \in Handles |->
                    CASE h = "whisper" -> w
                      [] h = "tts" -> "engine rate 150"
                      [] OTHER -> "opus-mt-ur-en"]

InitTranslate ==
    /\ pc = "tl_check"
    /\ \E w \in {"medium", "small"} :
          /\ bundle = FullBundle(w)
          /\ models = FullBundle(w)
          /\ console = IF w = "small" THEN <<"Falling back to whisper-small">> ELSE <<>>
          /\ calls = [c \in CallNames |->
                        IF c = "load_medium" \/ (c = "load_small" /\ w = "small")
                        THEN 1 ELSE 0]
    /\ wav0 \in {"absent", "stale"}
    /\ wav = wav0
    /\ audio = "unset"
    /\ stages = <<>>
    /\ rec_ret = Unset
    /\ result = Unset
    /\ text = Unset
    /\ arg \in TranslateInputs
    /\ english = Unset
    /\ urdu_text = Unset
    /\ english_text = Unset
    /\ exc = "none"
    /\ caller = "direct"
    /\ raised = {}

NextTranslate ==
    \/ TranslateCheck
    \/ Tokenize
    \/ Generate
    \/ Decode
    \/ TranslateFix
    \/ TranslateReturn
    \/ TranslateExcept

SpecTranslate == InitTranslate /\ [][NextTranslate]_vars

----------------------------------------------------------------------------
(* Vocabulary of the properties *)

InStages(s) == \E i \in DOMAIN stages : stages[i] = s

Logged(msg) == \E i \in DOMAIN console : console[i] = msg

Terminal == pc \in {"Done", "Aborted", "Raised"}

\* no orchestrator state of S was entered and no call of C was made
NotInvoked(S, C) == (\A s \in S : ~InStages(s)) /\ (\A c \in C : calls[c] = 0)

\* the stage function behind an orchestrator state
StageFn(s) ==
    CASE s = "Recording" -> "record"
      [] s = "Transcribing" -> "transcribe"
      [] s = "Translating" -> "translate"
      [] OTHER -> "none"

\* the stage main was in when it returned early
AbortedIn == StageFn(stages[Len(stages) - 1])

StageMessages == {FailureMsg.record, FailureMsg.transcribe, FailureMsg.translate}

Order == <<"Recording", "Transcribing", "Translating", "Speaking">>

LoadPcs == {"load_medium", "load_small", "load_tokenizer", "load_translator",
            "tts_init", "tts_rate", "load_return", "load_except"}

LoadRaisers == {"load_small", "load_tokenizer", "load_translator", "tts_init",
                "tts_rate"}

\* a string that passes `if not x`
Truthy(v) == v \notin {Unset, None, False, <<>>}

----------------------------------------------------------------------------
(* C1 *)

\* C1: once a stage has returned its failure sentinel (record: False,
\* transcribe: None, translate: None), no later stage has been entered and no
\* later external call (recognition, tokenizer, generation, speech, file
\* deletion) has been made in that run.
C1_PipelineAbort ==
    /\ rec_ret = False =>
          NotInvoked({"Transcribing", "Translating", "Speaking", "Done"},
                     {"whisper", "tokenizer", "generate", "say", "runAndWait", "remove"})
    /\ urdu_text = None =>
          NotInvoked({"Translating", "Speaking", "Done"},
                     {"tokenizer", "generate", "say", "runAndWait", "remove"})
    /\ english_text = None =>
          NotInvoked({"Speaking", "Done"}, {"say", "runAndWait", "remove"})

\* a run that aborted because translate_urdu returned None
C1_Witness == pc = "Aborted" /\ english_text = None /\ InStages("Translating")

----------------------------------------------------------------------------
(* C2 *)

\* C2 as stated: after every aborted run the file exists, after every fully
\* successful run it does not.
C2_Original ==
    /\ pc = "Aborted" => wav # "absent"
    /\ pc = "Done" => wav = "absent"

\* C2, amended: an aborted run never deletes the file. After an aborted run
\* the file exists if the recording succeeded or if a file was there before
\* the run; when no file was there before and the recording failed before
\* the waveform was written, the file does not exist. After a fully
\* successful run the file does not exist.
C2_Cleanup ==
    /\ pc = "Aborted" =>
          /\ calls["remove"] = 0
          /\ rec_ret = True => wav = "exported"
          /\ wav0 # "absent" => wav # "absent"
          /\ (wav0 = "absent" /\ calls["write"] = 0) => wav = "absent"
    /\ pc = "Done" => wav = "absent"

\* a run aborted by a recording failure before the write, no file on disk
C2_Witness ==
    pc = "Aborted" /\ rec_ret = False /\ calls["write"] = 0 /\ wav = "absent"

----------------------------------------------------------------------------
(* C3 *)

\* C3: called with None, the empty string or a string of fewer than 3
\* characters, translate_urdu returns None and never invokes the tokenizer
\* or the translation model; called with a string of 3 or more characters it
\* passes the length check, so the tokenizer is invoked.
C3_ShortInputRejected ==
    /\ (arg = None \/ Len(arg) < 3) =>
          /\ pc \in {"tl_check", "returned"}
          /\ calls["tokenizer"] = 0 /\ calls["generate"] = 0
          /\ pc = "returned" => english_text = None
    /\ (arg # None /\ Len(arg) >= 3 /\ pc = "returned") => calls["tokenizer"] = 1

\* translate_urdu has returned from a call with a 2-character string
C3_Witness == pc = "returned" /\ arg # None /\ Len(arg) = 2 /\ english_text = None

----------------------------------------------------------------------------
(* C4 *)

\* C4 as stated: whenever a run has aborted, the failure message of the
\* stage that failed has been logged, whatever the cause.
C4_Original == pc = "Aborted" => Logged(FailureMsg[AbortedIn])

\* C4, amended: whenever a run has aborted, the failure message of the stage
\* that failed has been logged exactly when that stage caught an exception;
\* an abort because translate_urdu rejected a too-short input, or because a
\* stage returned the empty string, logs no failure message.
C4_FailureLogged ==
    pc = "Aborted" =>
        /\ AbortedIn \in raised <=> Logged(FailureMsg[AbortedIn])
        /\ AbortedIn \notin raised =>
              \/ AbortedIn = "transcribe" /\ urdu_text = <<>>
              \/ AbortedIn = "translate" /\ (Len(urdu_text) < 3 \/ english_text = <<>>)

\* a run aborted by an exception inside transcribe_urdu
C4_Witness == pc = "Aborted" /\ AbortedIn = "transcribe" /\ "transcribe" \in raised

----------------------------------------------------------------------------
(* C5 *)

\* C5: an exception raised inside record_urdu_audio, transcribe_urdu or
\* translate_urdu never leaves the stage: once the handler has run the stage
\* has returned its sentinel (False, None, None), and the run ends Aborted
\* with no exception leaving main.
C5_StageExceptionsContained ==
    /\ exc \notin {"record", "transcribe", "translate"}
    /\ ("record" \in raised /\ pc # "rec_except") => rec_ret = False
    /\ ("transcribe" \in raised /\ pc # "tr_except") => urdu_text = None
    /\ ("translate" \in raised /\ pc # "tl_except") => english_text = None
    /\ (raised # {} /\ Terminal) => (pc = "Aborted" /\ exc = "none")

\* a run in which the recording raised, and which has ended
C5_Witness == "record" \in raised /\ Terminal

----------------------------------------------------------------------------
(* C6 *)

\* C6: when say or runAndWait raises, the exception leaves main: the run is
\* over, no failure message has been logged, Done has not been reached and
\* the file is still on disk, os.remove never having been called.
C6_SpeechExceptionUncaught ==
    exc \in {"say", "runAndWait"} =>
        /\ pc = "Raised"
        /\ ~InStages("Done") /\ ~InStages("Aborted")
        /\ \A m \in StageMessages \cup {FailureMsg.load} : ~Logged(m)
        /\ console[Len(console)] = "Speaking..."
        /\ calls["remove"] = 0
        /\ wav = "exported"

\* runAndWait raised
C6_Witness == exc = "runAndWait" /\ pc = "Raised"

----------------------------------------------------------------------------
(* C7 *)

\* the load of the "medium" model was attempted and did not deliver
PrimaryFailed ==
    /\ calls["load_medium"] = 1
    /\ "whisper" \in DOMAIN bundle => bundle["whisper"] # "medium"

\* C7: the fallback load is attempted at most once and only after the
\* primary load failed; a primary failure is logged before the fallback is
\* attempted; and when the load then completes, the bundle holds the same
\* four handles as after a primary success, the recognizer being "small".
C7_Fallback ==
    /\ calls["load_small"] <= 1
    /\ calls["load_small"] = 1 => PrimaryFailed
    /\ PrimaryFailed =>
          /\ Logged("Falling back to whisper-small")
          /\ pc = "load_small" \/ calls["load_small"] = 1
    /\ (PrimaryFailed /\ pc \notin LoadPcs \cup {"Raised"}) => models = FullBundle("small")
    /\ (PrimaryFailed /\ stages # <<>>) => models = FullBundle("small")
    /\ (~PrimaryFailed /\ pc \notin LoadPcs \cup {"Raised"}) => models = FullBundle("medium")

\* the pipeline runs on the fallback model
C7_Witness == PrimaryFailed /\ models = FullBundle("small") /\ pc = "Done"

----------------------------------------------------------------------------
(* C8 *)

\* C8: a stage is entered, and a stage's external call made, only with all
\* four handles in the module-level bundle; when the fallback load, the
\* tokenizer load, the translator load or the speech-engine setup raises,
\* load_models logs the failure and the exception ends the script: the
\* bundle is never bound and main is never entered.
C8_NoPartialBundle ==
    /\ (stages # <<>> \/ pc \notin LoadPcs \cup {"Raised"}) =>
          \E w \in {"medium", "small"} : models = FullBundle(w)
    /\ (\E c \in CallNames \ {"load_medium", "load_small"} : calls[c] > 0) =>
          DOMAIN models = Handles
    /\ exc \in LoadRaisers =>
          /\ pc \in {"load_except", "Raised"}
          /\ models = EmptyDict
          /\ stages = <<>>
          /\ pc = "Raised" => console[Len(console)] = FailureMsg.load

\* the translator load raised and the script ended
C8_Witness == exc = "load_translator" /\ pc = "Raised"

----------------------------------------------------------------------------
(* C9 *)

\* the orchestrator states entered so far form a run of the state machine
StageOrder ==
    \E k \in 0..4 :
        \/ stages = SubSeq(Order, 1, k)
        \/ k \in 1..3 /\ stages = Append(SubSeq(Order, 1, k), "Aborted")
        \/ k = 4 /\ stages = Append(Order, "Done")

C9_Safety ==
    /\ StageOrder
    /\ \A c \in CallNames : calls[c] <= 1
    /\ InStages("Transcribing") => rec_ret = True
    /\ InStages("Translating") => Truthy(urdu_text)
    /\ InStages("Speaking") => Truthy(english_text)
    /\ InStages("Done") => calls["say"] = 1 /\ calls["runAndWait"] = 1
    /\ pc = "Done" <=> InStages("Done")
    /\ pc = "Aborted" <=> InStages("Aborted")

\* C9: the stages are entered in the order Recording, Transcribing,
\* Translating, Speaking, each at most once, each after the previous one
\* succeeded, and Done only after the speech calls completed; and every run
\* of main in which no external call's exception leaves main eventually
\* reaches Done or Aborted.
C9_StageOrderAndTermination ==
    /\ []C9_Safety
    /\ (pc = "entry") ~> (pc \in {"Done", "Aborted"} \/ exc # "none")

\* a run that reached Done
C9_Witness == pc = "Done" /\ stages = Append(Order, "Done")

----------------------------------------------------------------------------
(* C10 *)

\* C10: when transcribe_urdu returned the empty string, translate_urdu is
\* not called; when translate_urdu returned the empty string, nothing is
\* spoken; so the tokenizer and the translation model only ever get a text
\* of 3 or more characters and say only ever gets a non-empty text.
C10_EmptyIsFailure ==
    /\ urdu_text = <<>> => NotInvoked({"Translating", "Speaking"}, {"tokenizer", "generate", "say"})
    /\ english_text = <<>> => NotInvoked({"Speaking"}, {"say", "runAndWait"})
    /\ (calls["tokenizer"] > 0 \/ calls["generate"] > 0) =>
          (arg \notin {Unset, None} /\ Len(arg) >= 3)
    /\ pc \in {"tl_tokenize", "tl_generate", "tl_decode"} =>
          (text # Unset /\ Len(text) >= 3)
    /\ calls["say"] > 0 => (Truthy(english_text) /\ Len(english_text) > 0)

\* a run aborted because transcribe_urdu returned the empty string
C10_Witness ==
    pc = "Aborted" /\ urdu_text = <<>> /\ AbortedIn = "transcribe" /\ raised = {}

====
